---- MODULE Spec2Model ----
(***************************************************************************)
(* A model of the ingestion and export collaborators of epathermostat      *)
(* (thermostat/importers.py, thermostat/exporters.py) and of the seasonal  *)
(* metrics recorded by tests/fixtures/thermostats.py.                      *)
(*                                                                         *)
(* Time is counted in hours since an arbitrary midnight, so a calendar day *)
(* d is the timestamp d * HoursPerDay.  A pandas Series is a record        *)
(* [present, index, values]; Python's None is the same record with         *)
(* present = FALSE.  Strings that the code parses (UTC offsets) are        *)
(* sequences of one-character strings.                                     *)
(***************************************************************************)
EXTENDS Integers, Sequences, FiniteSets, TLC

VARIABLES
  \* from_csv and its worker pool
  metadata_file, shuffle, save_cache, metadata, pc, next_task, running,
  result_list, warned, results, missing_thermostats, raised,
  \* one direct call of get_single_thermostat
  call,
  \* one run of the avoided-runtime integrator
  integration,
  \* one run of the season detector
  detector,
  \* one call of seasonal_metrics_to_csv
  export,
  \* the weather cache, the cache directory and its files, as the workers
  \* of from_csv use them
  resources

importVars == <<metadata_file, shuffle, save_cache, metadata, pc, next_task, running, result_list, warned, results, missing_thermostats, raised>>

vars == <<importVars, call, integration, detector, export, resources>>

----------------------------------------------------------------------------
\* Bounds of the model.

\* Longest metadata file, in rows.
MaxRows == 2

\* Longest interval-data file, in daily rows; dates are drawn from 1..MaxDays.
MaxDays == 2

\* Cores the scheduler grants the process (os.sched_getaffinity / cpu_count).
NUMBER_OF_CORES == 2

\* Largest daily runtime of a synthetic season, in minutes.
MaxRuntime == 2

\* Most season windows that overlap a daily index.
MaxWindows == 1

\* Most SeasonalMetrics records handed to one export.
MaxRecords == 2

----------------------------------------------------------------------------
\* Program constants.

MAX_FTP_CONNECTIONS == 3

HoursPerDay == 24

Min(a, b) == IF a < b THEN a ELSE b

AVAILABLE_PROCESSES == Min(NUMBER_OF_CORES, MAX_FTP_CONNECTIONS)

----------------------------------------------------------------------------
\* Values.

\* A missing cell of the metadata file: pandas reads it as the float NaN
\* even under dtype=str.
NaN == "NaN"

None == [present |-> FALSE, index |-> <<>>, values |-> <<>>]

NoThermostat == [thermostat_id |-> "", equipment_type |-> 0, zipcode |-> "", station |-> "", temperature_in |-> None, temperature_out |-> None, cooling_setpoint |-> None, heating_setpoint |-> None, cool_runtime |-> None, heat_runtime |-> None, auxiliary_heat_runtime |-> None, emergency_heat_runtime |-> None]

\* What a call leaves behind: a value or a raised exception, and the names of
\* the pandas Series constructed before it returned or raised.
Returned(thermostat, built, saved) == [exc |-> "", msg |-> "", thermostat |-> thermostat, built |-> built, saved |-> saved]

Raise(exc, msg, built) == [exc |-> exc, msg |-> msg, thermostat |-> NoThermostat, built |-> built, saved |-> ""]

----------------------------------------------------------------------------
\* _get_equipment_type: (heating, cooling, aux_emerg), or None (found = FALSE).

_get_equipment_type_heating_only_as_both(equipment_type) ==
  CASE equipment_type = 1 -> [found |-> TRUE, heating |-> TRUE, cooling |-> TRUE, aux_emerg |-> TRUE]
    [] equipment_type \in {2, 3, 4} -> [found |-> TRUE, heating |-> TRUE, cooling |-> TRUE, aux_emerg |-> FALSE]
    [] equipment_type = 5 -> [found |-> TRUE, heating |-> FALSE, cooling |-> TRUE, aux_emerg |-> FALSE]
    [] OTHER -> [found |-> FALSE, heating |-> FALSE, cooling |-> FALSE, aux_emerg |-> FALSE]

_get_equipment_type(equipment_type) ==
  CASE equipment_type = 1 -> [found |-> TRUE, heating |-> TRUE, cooling |-> TRUE, aux_emerg |-> TRUE]
    [] equipment_type = 2 -> [found |-> TRUE, heating |-> TRUE, cooling |-> TRUE, aux_emerg |-> FALSE]
    [] equipment_type = 3 -> [found |-> TRUE, heating |-> TRUE, cooling |-> TRUE, aux_emerg |-> FALSE]
    [] equipment_type = 4 -> [found |-> TRUE, heating |-> TRUE, cooling |-> FALSE, aux_emerg |-> FALSE]
    [] equipment_type = 5 -> [found |-> TRUE, heating |-> FALSE, cooling |-> TRUE, aux_emerg |-> FALSE]
    [] OTHER -> [found |-> FALSE, heating |-> FALSE, cooling |-> FALSE, aux_emerg |-> FALSE]

----------------------------------------------------------------------------
\* normalize_utc_offset.

Digits == {"0", "1", "2", "3", "4", "5", "6", "7", "8", "9"}

DigitValue(c) == CASE c = "0" -> 0 [] c = "1" -> 1 [] c = "2" -> 2 [] c = "3" -> 3 [] c = "4" -> 4 [] c = "5" -> 5 [] c = "6" -> 6 [] c = "7" -> 7 [] c = "8" -> 8 [] c = "9" -> 9 [] OTHER -> 0

RECURSIVE DecimalValue(_)
DecimalValue(s) == IF s = <<>> THEN 0 ELSE 10 * DecimalValue(SubSeq(s, 1, Len(s) - 1)) + DigitValue(s[Len(s)])

Signed(s) == Len(s) >= 1 /\ s[1] \in {"+", "-"}

Unsigned(s) == IF Signed(s) THEN Tail(s) ELSE s

AllDigits(s) == Len(s) >= 1 /\ \A i \in 1..Len(s) : s[i] \in Digits

\* Python's int(str): an optional sign and decimal digits, else ValueError.
\* int(float NaN) raises ValueError as well.
py_int(s) ==
  IF AllDigits(Unsigned(s))
  THEN [ok |-> TRUE, value |-> (IF Signed(s) /\ s[1] = "-" THEN -1 ELSE 1) * DecimalValue(Unsigned(s))]
  ELSE [ok |-> FALSE, value |-> 0]

\* dateutil.parser.parse("2000-01-01T00:00:00" + text).tzinfo.utcoffset(None),
\* in minutes: a sign and hh or hhmm digits give a fixed offset, "Z" gives UTC;
\* text without a time zone leaves tzinfo None (AttributeError).
dateutil_utcoffset(text) ==
  LET d == Unsigned(text)
      sign == IF text[1] = "-" THEN -1 ELSE 1
  IN  CASE text = <<"Z">> -> [ok |-> TRUE, minutes |-> 0]
        [] Signed(text) /\ AllDigits(d) /\ Len(d) \in {1, 2} -> [ok |-> TRUE, minutes |-> sign * 60 * DecimalValue(d)]
        [] Signed(text) /\ AllDigits(d) /\ Len(d) = 4 -> [ok |-> TRUE, minutes |-> sign * (60 * DecimalValue(SubSeq(d, 1, 2)) + DecimalValue(SubSeq(d, 3, 4)))]
        [] OTHER -> [ok |-> FALSE, minutes |-> 0]

normalize_utc_offset(utc_offset) ==
  LET n == py_int(utc_offset)
      text == IF n.ok /\ n.value = 0 THEN <<"+", "0">> ELSE utc_offset
      delta == dateutil_utcoffset(text)
  IN  IF ~n.ok THEN [ok |-> FALSE, exc |-> "TypeError", minutes |-> 0]
      ELSE IF ~delta.ok THEN [ok |-> FALSE, exc |-> "TypeError", minutes |-> 0]
      ELSE [ok |-> TRUE, exc |-> "", minutes |-> delta.minutes]

----------------------------------------------------------------------------
\* pandas helpers of get_single_thermostat.

\* pd.to_datetime of the date column: day d is the timestamp d * HoursPerDay.
to_datetime(days) == [i \in 1..Len(days) |-> days[i] * HoursPerDay]

FreqStep(freq) == IF freq = "D" THEN HoursPerDay ELSE 1

\* pd.date_range(start=start, periods=periods, freq=freq).
date_range(start, periods, freq) == [i \in 1..periods |-> start + (i - 1) * FreqStep(freq)]

daily_index(dates) == date_range(dates[1], Len(dates), "D")

hourly_index_daily_freq(dates) == date_range(dates[1], Len(dates) * HoursPerDay, "D")

hourly_index(dates) == date_range(dates[1], Len(dates) * HoursPerDay, "H")

\* all(dates == daily_index): the element-wise comparison of the two.
dates_aligned_first_only(dates, index) == dates[1] = index[1]

dates_aligned(dates, index) == \A i \in 1..Len(dates) : dates[i] = index[i]

\* _get_hourly_block: the n x 24 block of columns prefix_00..prefix_23,
\* flattened row by row; a value is named by the cell it was read from.
_get_hourly_block(n_rows, prefix) == [k \in 1..(n_rows * HoursPerDay) |-> <<prefix, ((k - 1) \div HoursPerDay) + 1, (k - 1) % HoursPerDay>>]

\* df[column].values of a daily column.
daily_column(n_rows, column) == [k \in 1..n_rows |-> <<column, k, 0>>]

\* pd.Series(data, index).
pd_Series(data, index) == [present |-> TRUE, index |-> index, values |-> data]

\* get_closest_station_by_zipcode: a station, None (""), or ValueError.
ZipCodes == {"62223", "00000", "zip?", "96799"}

get_closest_station_by_zipcode(zipcode) ==
  CASE zipcode = "62223" -> [ok |-> TRUE, station |-> "725314"]
    [] zipcode = "96799" -> [ok |-> TRUE, station |-> "999999"]
    [] zipcode = "00000" -> [ok |-> TRUE, station |-> ""]
    [] OTHER -> [ok |-> FALSE, station |-> ""]

\* get_indexed_temperatures_eeweather: the station's temperature at each
\* requested UTC time (in minutes), or ISDDataNotAvailableError.
get_indexed_temperatures_eeweather(station, utc_minutes) ==
  IF station = "999999" THEN [ok |-> FALSE, values |-> <<>>]
  ELSE [ok |-> TRUE, values |-> [k \in 1..Len(utc_minutes) |-> <<station, utc_minutes[k], 0>>]]

----------------------------------------------------------------------------
\* The interval-data file a metadata row names: the file name and, when the
\* file exists, its date column (day numbers, one per row).
IntervalFile(filename, dates) == [filename |-> filename, dates |-> dates]

\* pd.read_csv(interval_data_filename): a float NaN is no path (ValueError),
\* a path to no file is FileNotFoundError.
read_csv(interval) ==
  CASE interval.filename = NaN -> [ok |-> FALSE, exc |-> "ValueError"]
    [] interval.filename = "absent.csv" -> [ok |-> FALSE, exc |-> "FileNotFoundError"]
    [] OTHER -> [ok |-> TRUE, exc |-> ""]

\* save_json_cache writes <thermostat_id>.json; the name of the file written.
save_json_cache(thermostat_id) == thermostat_id

HourlyBuilt(eq) ==
  <<"temp_in">> \o (IF eq.heating THEN <<"heating_setpoint">> ELSE <<>>) \o (IF eq.cooling THEN <<"cooling_setpoint">> ELSE <<>>) \o (IF eq.aux_emerg THEN <<"auxiliary_heat_runtime", "emergency_heat_runtime">> ELSE <<>>)

DailyBuilt(eq) ==
  (IF eq.cooling THEN <<"cool_runtime">> ELSE <<>>) \o (IF eq.heating THEN <<"heat_runtime">> ELSE <<>>)

\* get_single_thermostat, statement by statement: the first failing statement
\* decides the exception, and `built` lists the Series constructed before it.
get_single_thermostat(thermostat_id, zipcode, equipment_type, utc_offset, interval, cache) ==
  LET df == read_csv(interval)
      eq == _get_equipment_type(equipment_type)
      dates == to_datetime(interval.dates)
      n == Len(dates)
      d_index == daily_index(dates)
      h_index == hourly_index(dates)
      h_index_utc == hourly_index(dates)
      hourly(prefix) == pd_Series(_get_hourly_block(n, prefix), h_index)
      daily(column) == pd_Series(daily_column(n, column), d_index)
      found == get_closest_station_by_zipcode(zipcode)
      station == found.station
      offset == normalize_utc_offset(utc_offset)
      utc_minutes == [k \in 1..Len(h_index_utc) |-> h_index_utc[k] * 60 - offset.minutes]
      weather == get_indexed_temperatures_eeweather(station, utc_minutes)
      temp_out == [present |-> TRUE, index |-> h_index, values |-> weather.values]
  IN  IF ~df.ok THEN Raise(df.exc, "read_csv", <<>>)
      ELSE IF ~eq.found THEN Raise("TypeError", "unpack None", <<>>)
      ELSE IF n = 0 THEN Raise("KeyError", "dates[0]", <<>>)
      ELSE IF ~dates_aligned(dates, d_index) THEN Raise("RuntimeError", "dates", <<>>)
      ELSE IF Len(_get_hourly_block(n, "temp_in")) # Len(h_index) THEN Raise("ValueError", "length", <<>>)
      ELSE IF ~found.ok THEN Raise("ValueError", "station", HourlyBuilt(eq))
      ELSE IF station = "" THEN Raise("RuntimeError", "station", HourlyBuilt(eq))
      ELSE IF ~offset.ok THEN Raise(offset.exc, "utc_offset", HourlyBuilt(eq))
      ELSE IF ~weather.ok THEN Raise("ISDDataNotAvailableError", "weather", HourlyBuilt(eq))
      ELSE Returned(
             [thermostat_id |-> thermostat_id,
              equipment_type |-> equipment_type,
              zipcode |-> zipcode,
              station |-> station,
              temperature_in |-> hourly("temp_in"),
              temperature_out |-> temp_out,
              cooling_setpoint |-> IF eq.cooling THEN hourly("cooling_setpoint") ELSE None,
              heating_setpoint |-> IF eq.heating THEN hourly("heating_setpoint") ELSE None,
              cool_runtime |-> IF eq.cooling THEN daily("cool_runtime") ELSE None,
              heat_runtime |-> IF eq.heating THEN daily("heat_runtime") ELSE None,
              auxiliary_heat_runtime |-> IF eq.aux_emerg THEN hourly("auxiliary_heat_runtime") ELSE None,
              emergency_heat_runtime |-> IF eq.aux_emerg THEN hourly("emergency_heat_runtime") ELSE None],
             HourlyBuilt(eq) \o <<"temp_out">> \o DailyBuilt(eq),
             IF cache THEN save_json_cache(thermostat_id) ELSE "")

\* Python's exception hierarchy, as far as the handlers tell the classes apart.
IsValueError(exc) == exc = "ValueError"

\* multiprocess_func on one metadata row: the value it returns (a Thermostat
\* or None), or the exception that escapes it, and the warning it issues.
multiprocess_func(row, cache) ==
  LET out == get_single_thermostat(row.thermostat_id, row.zipcode, row.equipment_type, row.utc_offset, row.interval, cache)
  IN  IF row.equipment_type \notin {1, 2, 3, 4, 5}
      THEN [kind |-> "None", exc |-> "", warning |-> "unsupported type", thermostat |-> NoThermostat, saved |-> ""]
      ELSE IF row.interval.filename = NaN
      THEN [kind |-> "raise", exc |-> "TypeError", warning |-> "", thermostat |-> NoThermostat, saved |-> ""]
      ELSE IF out.exc = ""
      THEN [kind |-> "Thermostat", exc |-> "", warning |-> "", thermostat |-> out.thermostat, saved |-> out.saved]
      ELSE IF IsValueError(out.exc)
      THEN [kind |-> "None", exc |-> "", warning |-> "no weather station", thermostat |-> NoThermostat, saved |-> ""]
      ELSE IF out.exc = "ISDDataNotAvailableError"
      THEN [kind |-> "None", exc |-> "", warning |-> "no NCDC data", thermostat |-> NoThermostat, saved |-> ""]
      ELSE [kind |-> "None", exc |-> "", warning |-> "error", thermostat |-> NoThermostat, saved |-> ""]

----------------------------------------------------------------------------
\* Inputs.

ThermostatIds == {"t1", "t2"}

EquipmentTypeCodes == 0..6

\* "-0700", "+7", "+0700", "Z", "0", "+0", a word that is no offset, and a
\* missing cell.
UtcOffsets == {<<"-", "0", "7", "0", "0">>, <<"+", "7">>, <<"+", "0", "7", "0", "0">>, <<"Z">>, <<"0">>, <<"+", "0">>, <<"x">>, <<NaN>>}

\* Every date column of at most MaxDays rows over the days 1..MaxDays.
DateColumns == UNION {[1..n -> 1..MaxDays] : n \in 0..MaxDays}

Intervals == {IntervalFile(NaN, <<>>), IntervalFile("absent.csv", <<>>)} \cup {IntervalFile("interval.csv", d) : d \in DateColumns}

AllRows == [thermostat_id : ThermostatIds, zipcode : ZipCodes, equipment_type : EquipmentTypeCodes, utc_offset : UtcOffsets, interval : Intervals]

\* A row that imports: a heat pump with auxiliary heat in a ZIP code with a
\* station, a "-0700" offset and MaxDays contiguous days of data.
GoodRow(id) == [thermostat_id |-> id, zipcode |-> "62223", equipment_type |-> 1, utc_offset |-> <<"-", "0", "7", "0", "0">>, interval |-> IntervalFile("interval.csv", [i \in 1..MaxDays |-> i])]

Deviations(r) == Cardinality({f \in {"zipcode", "equipment_type", "utc_offset", "interval"} : r[f] # GoodRow(r.thermostat_id)[f]})

\* The rows of the metadata files: a good row, or one that differs from it
\* in one field.
MetadataRows == {r \in AllRows : Deviations(r) <= 1}

MetadataFiles(rows, n) == [1..n -> rows]

Range(f) == {f[x] : x \in DOMAIN f}

Orderings(seq) == {p \in [1..Len(seq) -> Range(seq)] : \A r \in Range(seq) : Cardinality({i \in 1..Len(seq) : p[i] = r}) = Cardinality({i \in 1..Len(seq) : seq[i] = r})}

Workers == 1..AVAILABLE_PROCESSES

Pending == [kind |-> "pending", exc |-> "", warning |-> "", thermostat |-> NoThermostat, saved |-> ""]

----------------------------------------------------------------------------
\* from_csv.

IdleIntegration == integration = [stage |-> "idle"]

IdleDetector == detector = [stage |-> "idle"]

IdleExport == export = [stage |-> "idle"]

IdleResources == resources = [stage |-> "idle"]

IdleCall == [stage |-> "idle", thermostat_id |-> "", zipcode |-> "", equipment_type |-> 0, utc_offset |-> <<>>, interval |-> IntervalFile(NaN, <<>>), cache |-> FALSE, out |-> Raise("", "", <<>>), mp |-> Pending]

IdleSingle == call = IdleCall

\* The arguments of from_csv, for a metadata file of the given rows.
InitFromCsv(rows) ==
  /\ \E n \in 1..MaxRows : metadata_file \in MetadataFiles(rows, n)
  /\ shuffle \in BOOLEAN
  /\ save_cache \in BOOLEAN
  /\ metadata = <<>>
  /\ pc = "start"
  /\ next_task = 1
  /\ running = [w \in Workers |-> 0]
  /\ result_list = <<>>
  /\ warned = {}
  /\ results = <<>>
  /\ missing_thermostats = {}
  /\ raised = ""

InitImport == InitFromCsv(MetadataRows)

\* __prime_eeweather_cache, pd.read_csv of the metadata, the shuffle and the
\* creation of the pool (lines 143-168).
ReadMetadata ==
  /\ pc = "start"
  /\ metadata' \in (IF shuffle THEN Orderings(metadata_file) ELSE {metadata_file})
  /\ result_list' = [i \in 1..Len(metadata_file) |-> Pending]
  /\ pc' = "pool"
  /\ UNCHANGED <<metadata_file, shuffle, save_cache, next_task, running, warned, results, missing_thermostats, raised>>
  /\ UNCHANGED <<resources, call, integration, detector, export>>

\* Pool.imap hands the rows out in order, each to an idle worker.
Dispatch(w) ==
  /\ pc = "pool"
  /\ running[w] = 0
  /\ next_task <= Len(metadata)
  /\ running' = [running EXCEPT ![w] = next_task]
  /\ next_task' = next_task + 1
  /\ UNCHANGED <<metadata_file, shuffle, save_cache, metadata, pc, result_list, warned, results, missing_thermostats, raised>>
  /\ UNCHANGED <<resources, call, integration, detector, export>>

\* A worker runs multiprocess_func on its row; the value it returns, or the
\* exception that escapes it, is the row's item of the imap result.
WorkerRun(w) ==
  /\ pc = "pool"
  /\ running[w] # 0
  /\ LET i == running[w]
         r == multiprocess_func(metadata[i], save_cache)
     IN  /\ result_list' = [result_list EXCEPT ![i] = r]
         /\ warned' = IF r.warning = "" THEN warned ELSE warned \cup {<<i, r.warning>>}
  /\ running' = [running EXCEPT ![w] = 0]
  /\ UNCHANGED <<metadata_file, shuffle, save_cache, metadata, pc, next_task, results, missing_thermostats, raised>>
  /\ UNCHANGED <<resources, call, integration, detector, export>>

\* p.close(); p.join(): every row has been handed out and every worker is done.
Join ==
  /\ pc = "pool"
  /\ next_task > Len(metadata)
  /\ \A w \in Workers : running[w] = 0
  /\ pc' = "joined"
  /\ UNCHANGED <<metadata_file, shuffle, save_cache, metadata, next_task, running, result_list, warned, results, missing_thermostats, raised>>
  /\ UNCHANGED <<resources, call, integration, detector, export>>

RECURSIVE NotNone_reversed(_)
NotNone_reversed(items) ==
  IF items = <<>> THEN <<>>
  ELSE NotNone_reversed(Tail(items)) \o (IF Head(items).kind = "Thermostat" THEN <<Head(items).thermostat>> ELSE <<>>)

RECURSIVE NotNone(_)
NotNone(items) ==
  IF items = <<>> THEN <<>>
  ELSE (IF Head(items).kind = "Thermostat" THEN <<Head(items).thermostat>> ELSE <<>>) \o NotNone(Tail(items))

\* Lines 173-188: iterating the imap result re-raises the exception of the
\* first row whose worker raised; otherwise the Nones are dropped, the ids
\* that were not loaded are logged and the list is returned.
Collect ==
  /\ pc = "joined"
  /\ LET failed == {i \in 1..Len(result_list) : result_list[i].kind = "raise"}
         first == CHOOSE i \in failed : \A j \in failed : i <= j
         loaded == NotNone(result_list)
     IN  IF failed # {}
         THEN /\ pc' = "raised"
              /\ raised' = result_list[first].exc
              /\ UNCHANGED <<results, missing_thermostats>>
         ELSE /\ pc' = "done"
              /\ results' = loaded
              /\ missing_thermostats' = {metadata[i].thermostat_id : i \in 1..Len(metadata)} \ {loaded[i].thermostat_id : i \in 1..Len(loaded)}
              /\ UNCHANGED raised
  /\ UNCHANGED <<metadata_file, shuffle, save_cache, metadata, next_task, running, result_list, warned>>
  /\ UNCHANGED <<resources, call, integration, detector, export>>

NextImport ==
  \/ ReadMetadata
  \/ \E w \in Workers : Dispatch(w)
  \/ \E w \in Workers : WorkerRun(w)
  \/ Join
  \/ Collect

Init == InitImport /\ IdleSingle /\ IdleIntegration /\ IdleDetector /\ IdleExport /\ IdleResources

Spec == Init /\ [][NextImport]_vars

----------------------------------------------------------------------------
\* One direct import: get_single_thermostat on any arguments, then
\* multiprocess_func on the metadata row that carries the same arguments.

IdleImport ==
  /\ metadata_file = <<>>
  /\ shuffle = FALSE
  /\ save_cache = FALSE
  /\ metadata = <<>>
  /\ pc = "idle"
  /\ next_task = 1
  /\ running = [w \in Workers |-> 0]
  /\ result_list = <<>>
  /\ warned = {}
  /\ results = <<>>
  /\ missing_thermostats = {}
  /\ raised = ""

InitSingle ==
  /\ \E r \in {x \in AllRows : x.thermostat_id = "t1"}, c \in BOOLEAN :
       call = [stage |-> "args", thermostat_id |-> r.thermostat_id, zipcode |-> r.zipcode, equipment_type |-> r.equipment_type, utc_offset |-> r.utc_offset, interval |-> r.interval, cache |-> c, out |-> Raise("", "", <<>>), mp |-> Pending]
  /\ IdleImport
  /\ IdleIntegration
  /\ IdleDetector
  /\ IdleExport
  /\ IdleResources

CallRow == [thermostat_id |-> call.thermostat_id, zipcode |-> call.zipcode, equipment_type |-> call.equipment_type, utc_offset |-> call.utc_offset, interval |-> call.interval]

CallGetSingleThermostat ==
  /\ call.stage = "args"
  /\ call' = [call EXCEPT !.stage = "called", !.out = get_single_thermostat(call.thermostat_id, call.zipcode, call.equipment_type, call.utc_offset, call.interval, call.cache)]
  /\ UNCHANGED <<resources, importVars, integration, detector, export>>

CallMultiprocessFunc ==
  /\ call.stage = "called"
  /\ call' = [call EXCEPT !.stage = "done", !.mp = multiprocess_func(CallRow, call.cache)]
  /\ UNCHANGED <<resources, importVars, integration, detector, export>>

NextSingle ==
  \/ CallGetSingleThermostat
  \/ CallMultiprocessFunc

SpecSingle == InitSingle /\ [][NextSingle]_vars

Called == call.stage \in {"called", "done"}

Built == Called /\ call.out.exc = ""

----------------------------------------------------------------------------
\* C2: when the date column of a readable interval file of a supported
\* thermostat is not the contiguous daily range from its first date (some
\* date does not follow its predecessor by exactly one day), the import of
\* that thermostat ends in the alignment RuntimeError raised to the caller of
\* get_single_thermostat before any Series is built, no Thermostat is
\* produced, and multiprocess_func reports it as a warning and returns None.
Misaligned(days) == \E i \in 1..(Len(days) - 1) : days[i + 1] # days[i] + 1

AlignmentCase ==
  /\ call.interval.filename = "interval.csv"
  /\ call.equipment_type \in 1..5
  /\ Misaligned(call.interval.dates)

C2_AlignmentErrorIsFatal ==
  (Called /\ AlignmentCase) =>
    /\ call.out.exc = "RuntimeError"
    /\ call.out.msg = "dates"
    /\ call.out.built = <<>>
    /\ call.out.thermostat = NoThermostat
    /\ call.stage = "done" => (call.mp.kind = "None" /\ call.mp.warning = "error" /\ call.mp.thermostat = NoThermostat)

C2_Witness == call.stage = "done" /\ AlignmentCase /\ call.interval.dates = <<1, 1>> /\ call.mp.warning = "error"

\* C3: the equipment-type code decides the channels of every Thermostat that
\* get_single_thermostat builds: heating (setpoint and runtime) for types
\* 1-4, cooling (setpoint and runtime) for types 1, 2, 3 and 5, auxiliary and
\* emergency runtime for type 1 only; a code outside 1..5 yields no
\* Thermostat, neither from get_single_thermostat nor from multiprocess_func.
C3_ChannelsFollowEquipmentType ==
  LET t == call.out.thermostat
      code == call.equipment_type
  IN  /\ Built =>
           /\ code \in 1..5
           /\ t.equipment_type = code
           /\ t.heating_setpoint.present <=> code \in {1, 2, 3, 4}
           /\ t.heat_runtime.present <=> code \in {1, 2, 3, 4}
           /\ t.cooling_setpoint.present <=> code \in {1, 2, 3, 5}
           /\ t.cool_runtime.present <=> code \in {1, 2, 3, 5}
           /\ t.auxiliary_heat_runtime.present <=> code = 1
           /\ t.emergency_heat_runtime.present <=> code = 1
      /\ (Called /\ code \notin 1..5) => call.out.exc # "" /\ t = NoThermostat
      /\ (call.stage = "done" /\ code \notin 1..5) => call.mp.kind = "None"
      /\ (call.stage = "done" /\ call.mp.kind = "Thermostat") => call.mp.thermostat = t /\ Built

C3_Witness == call.stage = "done" /\ call.mp.kind = "Thermostat" /\ call.equipment_type = 4 /\ ~call.out.thermostat.cool_runtime.present /\ call.out.thermostat.heat_runtime.present

\* C4: in every Thermostat the importer produces, the present hourly series
\* share one hourly index without gaps, the present daily series share one
\* daily index without gaps that starts at the same time, and the hourly
\* index is exactly 24 times as long as the daily one.
GapFree(index, step) == \A i \in 1..(Len(index) - 1) : index[i + 1] = index[i] + step

HourlySeries(t) == {x \in {t.temperature_in, t.temperature_out, t.heating_setpoint, t.cooling_setpoint, t.auxiliary_heat_runtime, t.emergency_heat_runtime} : x.present}

DailySeries(t) == {x \in {t.cool_runtime, t.heat_runtime} : x.present}

C4_SharedGapFreeIndices ==
  LET t == call.out.thermostat
  IN  Built =>
        /\ {t.temperature_in, t.temperature_out} \subseteq HourlySeries(t)
        /\ DailySeries(t) # {}
        /\ \A h \in HourlySeries(t) :
             /\ h.index = t.temperature_in.index
             /\ Len(h.values) = Len(h.index)
             /\ GapFree(h.index, 1)
        /\ \A d \in DailySeries(t) :
             /\ GapFree(d.index, 24)
             /\ Len(d.values) = Len(d.index)
             /\ \A e \in DailySeries(t) : e.index = d.index
             /\ Len(d.index) >= 1
             /\ t.temperature_in.index[1] = d.index[1]
             /\ Len(t.temperature_in.index) = 24 * Len(d.index)

C4_Witness == Built /\ call.equipment_type = 1 /\ Len(call.out.thermostat.heat_runtime.index) = MaxDays /\ call.out.thermostat.heat_runtime.index[1] = HoursPerDay

----------------------------------------------------------------------------
\* C1: a failure while importing one thermostat never aborts the import of
\* the others: whatever rows fail, from_csv ends without raising and returns,
\* in row order, the Thermostat of every row whose own import succeeds.
OwnImport(row) == get_single_thermostat(row.thermostat_id, row.zipcode, row.equipment_type, row.utc_offset, row.interval, save_cache)

Succeeds(row) == row.equipment_type \in 1..5 /\ row.interval.filename # NaN /\ OwnImport(row).exc = ""

RECURSIVE SucceededThermostats(_)
SucceededThermostats(rows) ==
  IF rows = <<>> THEN <<>>
  ELSE (IF Succeeds(Head(rows)) THEN <<OwnImport(Head(rows)).thermostat>> ELSE <<>>) \o SucceededThermostats(Tail(rows))

C1_FailuresNeverAbortImport ==
  pc \in {"done", "raised"} => (pc = "done" /\ results = SucceededThermostats(metadata))

\* What from_csv does guarantee: it raises only for a row of a supported type
\* whose interval_data_filename cell is missing, and otherwise returns the
\* thermostats that imported.
C1_RaisesOnlyOnMissingFilename ==
  /\ pc = "raised" => raised = "TypeError" /\ \E i \in 1..Len(metadata) : metadata[i].equipment_type \in 1..5 /\ metadata[i].interval.filename = NaN
  /\ pc = "done" => results = SucceededThermostats(metadata)

----------------------------------------------------------------------------
\* The seasonal metrics that the test fixture records as the output of
\* calculate_epa_draft_rccs_field_savings_metrics for the reference type-1
\* thermostat.  Runtimes are rounded to whole minutes, savings fractions to
\* 1/10000, the daily runtime to whole minutes.

Modes == {"heating", "cooling"}

Methods(mode) == IF mode = "heating" THEN {"deltaT", "dailyavgHDD", "hourlyavgHDD"} ELSE {"deltaT", "dailyavgCDD", "hourlyavgCDD"}

seasonal_metrics_type_1_data(mode, method) ==
  CASE mode = "heating" /\ method = "deltaT" ->
         [actual_seasonal_runtime |-> 6541693, actual_daily_runtime |-> 51509, baseline_seasonal_runtime |-> 5955131, seasonal_avoided_runtime |-> 586562, seasonal_savings |-> 980, n_days_both_heating_and_cooling |-> 21, n_days_insufficient_data |-> 1]
    [] mode = "heating" /\ method = "dailyavgHDD" ->
         [actual_seasonal_runtime |-> 6541693, actual_daily_runtime |-> 51509, baseline_seasonal_runtime |-> 5955131, seasonal_avoided_runtime |-> 586562, seasonal_savings |-> 985, n_days_both_heating_and_cooling |-> 21, n_days_insufficient_data |-> 1]
    [] mode = "heating" /\ method = "hourlyavgHDD" ->
         [actual_seasonal_runtime |-> 6541693, actual_daily_runtime |-> 51509, baseline_seasonal_runtime |-> 5638461, seasonal_avoided_runtime |-> 903232, seasonal_savings |-> 1602, n_days_both_heating_and_cooling |-> 21, n_days_insufficient_data |-> 1]
    [] mode = "cooling" /\ method = "deltaT" ->
         [actual_seasonal_runtime |-> 1225295, actual_daily_runtime |-> 16558, baseline_seasonal_runtime |-> 981021, seasonal_avoided_runtime |-> 243475, seasonal_savings |-> 2490, n_days_both_heating_and_cooling |-> 50, n_days_insufficient_data |-> 3]
    [] mode = "cooling" /\ method = "dailyavgCDD" ->
         [actual_seasonal_runtime |-> 1225295, actual_daily_runtime |-> 16558, baseline_seasonal_runtime |-> 979086, seasonal_avoided_runtime |-> 245283, seasonal_savings |-> 2515, n_days_both_heating_and_cooling |-> 50, n_days_insufficient_data |-> 3]
    [] OTHER ->
         [actual_seasonal_runtime |-> 1225295, actual_daily_runtime |-> 16558, baseline_seasonal_runtime |-> 843036, seasonal_avoided_runtime |-> 382259, seasonal_savings |-> 4534, n_days_both_heating_and_cooling |-> 50, n_days_insufficient_data |-> 3]

----------------------------------------------------------------------------
\* AvoidedRuntimeIntegrator (design section 4.5).

\* One day of a daily series: a value, or undefined.
Day(defined, value) == [defined |-> defined, value |-> value]

DailyValues == {Day(FALSE, 0)} \cup {Day(TRUE, v) : v \in 0..MaxRuntime}

\* The days valid in both series.
valid_days_baseline_only(actual, baseline) == {i \in 1..Len(baseline) : baseline[i].defined}

valid_days(actual, baseline) == {i \in 1..Len(actual) : actual[i].defined /\ baseline[i].defined}

RECURSIVE SumOver(_, _)
SumOver(series, days) ==
  IF days = {} THEN 0
  ELSE LET i == CHOOSE d \in days : TRUE
       IN  series[i].value + SumOver(series, days \ {i})

\* Positive when the actual runtime is below the baseline, in either mode.
seasonal_avoided_runtime(mode, seasonal_baseline, seasonal_actual) ==
  IF mode = "heating" THEN seasonal_baseline - seasonal_actual ELSE -(seasonal_actual - seasonal_baseline)

\* seasonal_avoided / seasonal_baseline as an exact fraction; undefined
\* (NaN) when the baseline total is zero.
savings_fraction(seasonal_avoided, seasonal_baseline) ==
  IF seasonal_baseline = 0 THEN [defined |-> FALSE, num |-> 0, den |-> 1]
  ELSE [defined |-> TRUE, num |-> seasonal_avoided, den |-> seasonal_baseline]

integrate_totals(mode, seasonal_actual, seasonal_baseline) ==
  LET avoided == seasonal_avoided_runtime(mode, seasonal_baseline, seasonal_actual)
  IN  [seasonal_actual |-> seasonal_actual, seasonal_baseline |-> seasonal_baseline, seasonal_avoided |-> avoided, savings_fraction |-> savings_fraction(avoided, seasonal_baseline)]

integrate(mode, actual, baseline) ==
  LET days == valid_days(actual, baseline)
  IN  integrate_totals(mode, SumOver(actual, days), SumOver(baseline, days))

\* A fraction a / b (a >= 0, b > 0) to k decimal places, by long division:
\* <<floor(a * 10^k / b), remainder>>.
RECURSIVE LongDivision(_, _, _)
LongDivision(a, b, k) ==
  IF k = 0 THEN <<a \div b, a % b>>
  ELSE LET qr == LongDivision(a, b, k - 1)
       IN  <<10 * qr[1] + ((10 * qr[2]) \div b), (10 * qr[2]) % b>>

Abs(x) == IF x < 0 THEN -x ELSE x

\* A defined fraction in units of 1/10000, rounded half up in magnitude.
InTenThousandths(fraction) ==
  LET qr == LongDivision(Abs(fraction.num), Abs(fraction.den), 4)
      magnitude == IF 2 * qr[2] >= Abs(fraction.den) THEN qr[1] + 1 ELSE qr[1]
  IN  IF (fraction.num < 0) # (fraction.den < 0) THEN -magnitude ELSE magnitude

NoTotals == [seasonal_actual |-> 0, seasonal_baseline |-> 0, seasonal_avoided |-> 0, savings_fraction |-> [defined |-> FALSE, num |-> 0, den |-> 1]]

NoRecord == [actual_seasonal_runtime |-> 0, actual_daily_runtime |-> 0, baseline_seasonal_runtime |-> 0, seasonal_avoided_runtime |-> 0, seasonal_savings |-> 0, n_days_both_heating_and_cooling |-> 0, n_days_insufficient_data |-> 0]

DailySeriesPairs == UNION {[1..n -> DailyValues] \X [1..n -> DailyValues] : n \in 0..MaxDays}

\* A season is either the reference season of the fixture (its recorded
\* totals) or a synthetic season given by its two daily series.
InitIntegration ==
  \/ \E mode \in Modes : \E method \in Methods(mode) :
       integration = [stage |-> "season", source |-> "fixture", mode |-> mode, method |-> method, actual |-> <<>>, baseline |-> <<>>, recorded |-> NoRecord, out |-> NoTotals]
  \/ \E mode \in Modes, pair \in DailySeriesPairs :
       integration = [stage |-> "season", source |-> "series", mode |-> mode, method |-> "deltaT", actual |-> pair[1], baseline |-> pair[2], recorded |-> NoRecord, out |-> NoTotals]

InitSavings == IdleImport /\ IdleSingle /\ InitIntegration /\ IdleDetector /\ IdleExport /\ IdleResources

\* The integrator on the two daily series of a synthetic season.
Integrate ==
  /\ integration.stage = "season"
  /\ integration.source = "series"
  /\ integration' = [integration EXCEPT !.stage = "integrated", !.out = integrate(integration.mode, integration.actual, integration.baseline)]
  /\ UNCHANGED <<resources, importVars, call, detector, export>>

\* The reference season: the metrics the program reports for it (as the
\* fixture records them) and the integrator's rules applied to the reported
\* actual and baseline totals.
ReportReferenceSeason ==
  /\ integration.stage = "season"
  /\ integration.source = "fixture"
  /\ LET recorded == seasonal_metrics_type_1_data(integration.mode, integration.method)
     IN  integration' = [integration EXCEPT !.stage = "reported", !.recorded = recorded, !.out = integrate_totals(integration.mode, recorded.actual_seasonal_runtime, recorded.baseline_seasonal_runtime)]
  /\ UNCHANGED <<resources, importVars, call, detector, export>>

NextSavings ==
  \/ Integrate
  \/ ReportReferenceSeason

SpecSavings == InitSavings /\ [][NextSavings]_vars

----------------------------------------------------------------------------
\* C5: for a heating season and every method the reported
\* seasonal_avoided_runtime is seasonal_baseline_runtime minus
\* seasonal_actual_runtime (to the minute), so it is positive exactly when
\* the actual runtime is below the baseline; for cooling a positive value
\* likewise denotes an actual runtime below the baseline.
C5_AvoidedIsBaselineMinusActual ==
  LET r == integration.recorded
  IN  /\ (integration.stage = "reported" /\ integration.mode = "heating") =>
           /\ Abs(r.seasonal_avoided_runtime - (r.baseline_seasonal_runtime - r.actual_seasonal_runtime)) <= 1
           /\ r.seasonal_avoided_runtime > 0 <=> r.actual_seasonal_runtime < r.baseline_seasonal_runtime
      /\ (integration.stage = "reported" /\ integration.mode = "cooling") =>
           (r.seasonal_avoided_runtime > 0 <=> r.actual_seasonal_runtime < r.baseline_seasonal_runtime)

\* What the fixture does record, in both modes and for every method: the
\* reported avoided runtime is the actual minus the baseline seasonal runtime
\* (within half a percent), and the reported savings are that difference
\* over the baseline (to the three decimals every method is recorded with).
C5_ReportedAvoidedIsActualMinusBaseline ==
  LET r == integration.recorded
      d == r.actual_seasonal_runtime - r.baseline_seasonal_runtime
  IN  integration.stage = "reported" =>
        /\ 200 * Abs(r.seasonal_avoided_runtime - d) <= d
        /\ integration.mode = "heating" => Abs(r.seasonal_avoided_runtime - d) <= 1
        /\ r.seasonal_savings \div 10 = InTenThousandths([defined |-> TRUE, num |-> d, den |-> r.baseline_seasonal_runtime]) \div 10

\* C6: for the reference heating season the reported baseline seasonal
\* runtime under dailyavgHDD is 5,955,131 minutes, and the savings that the
\* integrator's rules (avoided runtime, then avoided over baseline) give for
\* that baseline and the actual 6,541,693 minutes are 0.0985.
ReferenceSeason == integration.stage = "reported" /\ integration.mode = "heating" /\ integration.method = "dailyavgHDD"

C6_ReferenceSeasonSavings ==
  ReferenceSeason =>
    /\ integration.recorded.actual_seasonal_runtime = 6541693
    /\ integration.recorded.baseline_seasonal_runtime = 5955131
    /\ integration.out.savings_fraction.defined
    /\ InTenThousandths(integration.out.savings_fraction) = 985

\* The parts of C6 that hold: the reported baseline and the reported savings
\* are the claimed numbers; the rules give the same magnitude, negated.
C6_ReportedReferenceNumbers ==
  ReferenceSeason =>
    /\ integration.recorded.baseline_seasonal_runtime = 5955131
    /\ integration.recorded.seasonal_savings = 985
    /\ InTenThousandths(integration.out.savings_fraction) = -985

\* C7: the savings fraction is the seasonal avoided runtime over the
\* seasonal baseline, both summed only over the days defined in both series
\* (every other day contributes zero to both totals); it is undefined
\* exactly when the seasonal baseline is zero, which includes a season
\* without any valid day, and a result is produced for every season.
RECURSIVE TotalOfBothDefined(_, _, _)
TotalOfBothDefined(series, other, n) ==
  IF n = 0 THEN 0
  ELSE TotalOfBothDefined(series, other, n - 1) + (IF series[n].defined /\ other[n].defined THEN series[n].value ELSE 0)

C7_SavingsFractionOverValidDays ==
  LET a == integration.actual
      b == integration.baseline
      out == integration.out
  IN  /\ (integration.stage = "season" /\ integration.source = "series") => ENABLED Integrate
      /\ integration.stage = "integrated" =>
           /\ out.seasonal_actual = TotalOfBothDefined(a, b, Len(a))
           /\ out.seasonal_baseline = TotalOfBothDefined(b, a, Len(b))
           /\ out.savings_fraction.defined <=> out.seasonal_baseline # 0
           /\ out.savings_fraction.defined =>
                /\ out.savings_fraction.num = out.seasonal_avoided
                /\ out.savings_fraction.den = out.seasonal_baseline
           /\ (\A i \in 1..Len(a) : ~(a[i].defined /\ b[i].defined)) => ~out.savings_fraction.defined

C7_Witness ==
  /\ integration.stage = "integrated"
  /\ Len(integration.actual) = MaxDays
  /\ \A i \in 1..MaxDays : integration.baseline[i] = Day(TRUE, MaxRuntime)
  /\ \A i \in 1..MaxDays : ~integration.actual[i].defined
  /\ ~integration.out.savings_fraction.defined

----------------------------------------------------------------------------
\* SeasonDetector (design section 4.1): the day counts of a season.

\* One day of the daily index: the season window it falls in (0: none), the
\* two runtimes and the number of valid hourly temperature observations.
DayRecords == [window : 0..MaxWindows, heat_runtime : {0, MaxRuntime}, cool_runtime : {0, MaxRuntime}, hours_observed : {HoursPerDay - 1, HoursPerDay}]

DailyIndexes == UNION {[1..n -> DayRecords] : n \in 1..MaxDays}

\* Season.daily: the mask of the index positions inside the window.
season_daily_mask(days, window) == [i \in 1..Len(days) |-> days[i].window = window]

n_days_in_season(mask) == Cardinality({i \in 1..Len(mask) : mask[i]})

OwnRuntime(day, mode) == IF mode = "heating" THEN day.heat_runtime ELSE day.cool_runtime

OppositeRuntime(day, mode) == IF mode = "heating" THEN day.cool_runtime ELSE day.heat_runtime

n_days_both_heating_and_cooling(days, mask, mode) == Cardinality({i \in 1..Len(days) : mask[i] /\ OwnRuntime(days[i], mode) > 0 /\ OppositeRuntime(days[i], mode) > 0})

n_days_insufficient_data_whole_index(days, mask) == Cardinality({i \in 1..Len(days) : days[i].hours_observed < HoursPerDay})

n_days_insufficient_data(days, mask) == Cardinality({i \in 1..Len(days) : mask[i] /\ days[i].hours_observed < HoursPerDay})

Season(days, window, mode) ==
  LET mask == season_daily_mask(days, window)
  IN  [window |-> window, daily |-> mask, n_days_in_season |-> n_days_in_season(mask), n_days_both_heating_and_cooling |-> n_days_both_heating_and_cooling(days, mask, mode), n_days_insufficient_data |-> n_days_insufficient_data(days, mask)]

\* The seasons in chronological order: one per window that holds a day of
\* the index, whether or not any of its days is valid.
RECURSIVE DetectFrom(_, _, _)
DetectFrom(days, mode, window) ==
  IF window > MaxWindows THEN <<>>
  ELSE (IF \E i \in 1..Len(days) : days[i].window = window THEN <<Season(days, window, mode)>> ELSE <<>>) \o DetectFrom(days, mode, window + 1)

detect(days, mode) == DetectFrom(days, mode, 1)

InitDetector == \E days \in DailyIndexes, mode \in Modes : detector = [stage |-> "index", days |-> days, mode |-> mode, seasons |-> <<>>]

InitSeason == IdleImport /\ IdleSingle /\ IdleIntegration /\ InitDetector /\ IdleExport /\ IdleResources

Detect ==
  /\ detector.stage = "index"
  /\ detector' = [detector EXCEPT !.stage = "detected", !.seasons = detect(detector.days, detector.mode)]
  /\ UNCHANGED <<resources, importVars, call, integration, export>>

NextSeason == Detect

SpecSeason == InitSeason /\ [][NextSeason]_vars

\* C8: every season the detector produces has at least as many days as it
\* has days of both heating and cooling and as it has days of insufficient
\* data, n_days_in_season being the number of index days inside the season
\* window whatever their data.
C8_SeasonDayCounts ==
  detector.stage = "detected" =>
    \A k \in 1..Len(detector.seasons) :
      LET season == detector.seasons[k]
      IN  /\ season.n_days_in_season >= season.n_days_both_heating_and_cooling
          /\ season.n_days_in_season >= season.n_days_insufficient_data
          /\ season.n_days_in_season = Cardinality({i \in 1..Len(detector.days) : detector.days[i].window = season.window})

C8_Witness ==
  /\ detector.stage = "detected"
  /\ Len(detector.seasons) >= 1
  /\ detector.seasons[1].n_days_in_season = MaxDays
  /\ detector.seasons[1].n_days_insufficient_data = MaxDays
  /\ detector.seasons[1].n_days_both_heating_and_cooling = 0

----------------------------------------------------------------------------
\* seasonal_metrics_to_csv.

\* The values of a SeasonalMetrics record: text, an integer, or a float given
\* to three decimals (sign, whole part, thousandths).
String(text) == [kind |-> "string", neg |-> FALSE, whole |-> 0, milli |-> 0, text |-> text]

Integer(n) == [kind |-> "integer", neg |-> n < 0, whole |-> Abs(n), milli |-> 0, text |-> ""]

Float(neg, whole, milli) == [kind |-> "float", neg |-> neg, whole |-> whole, milli |-> milli, text |-> ""]

\* The NaN pandas puts where a record has no value for a column.
Missing == [kind |-> "nan", neg |-> FALSE, whole |-> 0, milli |-> 0, text |-> ""]

columns ==
  <<"ct_identifier",
    "equipment_type",
    "season_name",
    "station",
    "zipcode",
    "n_days_both_heating_and_cooling",
    "n_days_insufficient_data",
    "slope_deltaT",
    "alpha_est_dailyavgCDD",
    "alpha_est_dailyavgHDD",
    "alpha_est_hourlyavgCDD",
    "alpha_est_hourlyavgHDD",
    "mean_sq_err_dailyavgCDD",
    "mean_sq_err_dailyavgHDD",
    "mean_sq_err_hourlyavgCDD",
    "mean_sq_err_hourlyavgHDD",
    "mean_squared_error_deltaT",
    "deltaT_base_est_dailyavgCDD",
    "deltaT_base_est_dailyavgHDD",
    "deltaT_base_est_hourlyavgCDD",
    "deltaT_base_est_hourlyavgHDD",
    "baseline_daily_runtime_deltaT",
    "baseline_daily_runtime_dailyavgCDD",
    "baseline_daily_runtime_dailyavgHDD",
    "baseline_daily_runtime_hourlyavgCDD",
    "baseline_daily_runtime_hourlyavgHDD",
    "baseline_seasonal_runtime_deltaT",
    "baseline_seasonal_runtime_dailyavgCDD",
    "baseline_seasonal_runtime_dailyavgHDD",
    "baseline_seasonal_runtime_hourlyavgCDD",
    "baseline_seasonal_runtime_hourlyavgHDD",
    "baseline_comfort_temperature",
    "actual_daily_runtime",
    "actual_seasonal_runtime",
    "seasonal_avoided_runtime_deltaT",
    "seasonal_avoided_runtime_dailyavgCDD",
    "seasonal_avoided_runtime_dailyavgHDD",
    "seasonal_avoided_runtime_hourlyavgCDD",
    "seasonal_avoided_runtime_hourlyavgHDD",
    "seasonal_savings_deltaT",
    "seasonal_savings_dailyavgCDD",
    "seasonal_savings_dailyavgHDD",
    "seasonal_savings_hourlyavgCDD",
    "seasonal_savings_hourlyavgHDD",
    "rhu_00F_to_05F",
    "rhu_05F_to_10F",
    "rhu_10F_to_15F",
    "rhu_15F_to_20F",
    "rhu_20F_to_25F",
    "rhu_25F_to_30F",
    "rhu_30F_to_35F",
    "rhu_35F_to_40F",
    "rhu_40F_to_45F",
    "rhu_45F_to_50F",
    "rhu_50F_to_55F",
    "rhu_55F_to_60F">>

\* The record the aggregator returns for the reference seasons, as the test
\* fixture records it (floats rounded to three decimals).
seasonal_metrics_record(mode) ==
  IF mode = "heating"
  THEN
    [ct_identifier |-> String("8465829e-df0d-449e-97bf-96317c24dec3"),
     equipment_type |-> Integer(1),
     zipcode |-> String("62223"),
     station |-> String("725314"),
     season_name |-> String("2010-2011 Heating"),
     baseline_comfort_temperature |-> Float(FALSE, 69, 0),
     baseline_daily_runtime_deltaT |-> Float(FALSE, 46890, 794),
     baseline_daily_runtime_dailyavgHDD |-> Float(FALSE, 46890, 795),
     baseline_daily_runtime_hourlyavgHDD |-> Float(FALSE, 44397, 331),
     baseline_seasonal_runtime_deltaT |-> Float(FALSE, 5955130, 963),
     baseline_seasonal_runtime_dailyavgHDD |-> Float(FALSE, 5955130, 962),
     baseline_seasonal_runtime_hourlyavgHDD |-> Float(FALSE, 5638461, 59),
     actual_daily_runtime |-> Float(FALSE, 51509, 394),
     actual_seasonal_runtime |-> Float(FALSE, 6541693, 0),
     seasonal_savings_deltaT |-> Float(FALSE, 0, 98),
     seasonal_savings_dailyavgHDD |-> Float(FALSE, 0, 98),
     seasonal_savings_hourlyavgHDD |-> Float(FALSE, 0, 160),
     seasonal_avoided_runtime_deltaT |-> Float(FALSE, 586562, 30),
     seasonal_avoided_runtime_dailyavgHDD |-> Float(FALSE, 586562, 38),
     seasonal_avoided_runtime_hourlyavgHDD |-> Float(FALSE, 903231, 941),
     mean_squared_error_deltaT |-> Float(FALSE, 26320361, 186),
     mean_sq_err_dailyavgHDD |-> Float(FALSE, 26320361, 187),
     mean_sq_err_hourlyavgHDD |-> Float(FALSE, 37799543, 362),
     slope_deltaT |-> Float(FALSE, 1860, 51),
     intercept_deltaT |-> Float(FALSE, 5376, 836),
     alpha_est_dailyavgHDD |-> Float(FALSE, 1860, 52),
     alpha_est_hourlyavgHDD |-> Float(FALSE, 1926, 148),
     deltaT_base_est_dailyavgHDD |-> Float(TRUE, 2, 888),
     deltaT_base_est_hourlyavgHDD |-> Float(TRUE, 3, 122),
     n_days_both_heating_and_cooling |-> Integer(21),
     n_days_insufficient_data |-> Integer(1),
     rhu_00F_to_05F |-> Float(FALSE, 0, 0),
     rhu_05F_to_10F |-> Float(FALSE, 0, 317),
     rhu_10F_to_15F |-> Float(FALSE, 0, 181),
     rhu_15F_to_20F |-> Float(FALSE, 0, 821),
     rhu_20F_to_25F |-> Float(FALSE, 0, 214),
     rhu_25F_to_30F |-> Float(FALSE, 0, 358),
     rhu_30F_to_35F |-> Float(FALSE, 0, 304),
     rhu_35F_to_40F |-> Float(FALSE, 0, 258),
     rhu_40F_to_45F |-> Float(FALSE, 0, 96),
     rhu_45F_to_50F |-> Float(FALSE, 0, 36),
     rhu_50F_to_55F |-> Float(FALSE, 0, 48),
     rhu_55F_to_60F |-> Float(FALSE, 0, 27)]
  ELSE
    [ct_identifier |-> String("8465829e-df0d-449e-97bf-96317c24dec3"),
     equipment_type |-> Integer(1),
     zipcode |-> String("62223"),
     station |-> String("725314"),
     season_name |-> String("2011 Cooling"),
     n_days_both_heating_and_cooling |-> Integer(50),
     n_days_insufficient_data |-> Integer(3),
     slope_deltaT |-> Float(FALSE, 2433, 910),
     intercept_deltaT |-> Float(FALSE, 576, 985),
     alpha_est_dailyavgCDD |-> Float(FALSE, 2433, 918),
     alpha_est_hourlyavgCDD |-> Float(FALSE, 2591, 956),
     deltaT_base_est_dailyavgCDD |-> Float(FALSE, 0, 237),
     deltaT_base_est_hourlyavgCDD |-> Float(TRUE, 0, 218),
     mean_squared_error_deltaT |-> Float(FALSE, 582489, 799),
     mean_sq_err_dailyavgCDD |-> Float(FALSE, 582489, 799),
     mean_sq_err_hourlyavgCDD |-> Float(FALSE, 1064312, 830),
     baseline_comfort_temperature |-> Float(FALSE, 73, 0),
     actual_seasonal_runtime |-> Float(FALSE, 1225295, 0),
     actual_daily_runtime |-> Float(FALSE, 16558, 41),
     baseline_daily_runtime_deltaT |-> Float(FALSE, 13257, 35),
     baseline_daily_runtime_dailyavgCDD |-> Float(FALSE, 13230, 890),
     baseline_daily_runtime_hourlyavgCDD |-> Float(FALSE, 11392, 382),
     baseline_seasonal_runtime_deltaT |-> Float(FALSE, 981020, 583),
     baseline_seasonal_runtime_dailyavgCDD |-> Float(FALSE, 979085, 896),
     baseline_seasonal_runtime_hourlyavgCDD |-> Float(FALSE, 843036, 294),
     seasonal_avoided_runtime_deltaT |-> Float(FALSE, 243474, 847),
     seasonal_avoided_runtime_dailyavgCDD |-> Float(FALSE, 245283, 102),
     seasonal_avoided_runtime_hourlyavgCDD |-> Float(FALSE, 382258, 706),
     seasonal_savings_deltaT |-> Float(FALSE, 0, 249),
     seasonal_savings_dailyavgCDD |-> Float(FALSE, 0, 251),
     seasonal_savings_hourlyavgCDD |-> Float(FALSE, 0, 453)]

ExportedIds == {"8465829e-df0d-449e-97bf-96317c24dec3", "t2"}

MetricsRecords == {[seasonal_metrics_record(mode) EXCEPT !.ct_identifier = String(id), !.n_days_insufficient_data = Integer(n)] : mode \in Modes, id \in ExportedIds, n \in 0..MaxDays}

MetricsLists == UNION {[1..n -> MetricsRecords] : n \in 0..MaxRecords}

\* pd.DataFrame(seasonal_metrics): a column per key of any record, NaN where
\* a record lacks the key; an integer column that holds a NaN becomes float.
FrameColumns(records) == UNION {DOMAIN records[i] : i \in 1..Len(records)}

ColumnHasMissing(records, c) == \E i \in 1..Len(records) : c \notin DOMAIN records[i]

FrameValue(records, i, c) ==
  IF c \notin DOMAIN records[i] THEN Missing
  ELSE IF records[i][c].kind = "integer" /\ ColumnHasMissing(records, c) THEN Float(records[i][c].neg, records[i][c].whole, 0)
  ELSE records[i][c]

DataFrame(records) == [i \in 1..Len(records) |-> [c \in FrameColumns(records) |-> FrameValue(records, i, c)]]

DigitChar(d) == CASE d = 0 -> "0" [] d = 1 -> "1" [] d = 2 -> "2" [] d = 3 -> "3" [] d = 4 -> "4" [] d = 5 -> "5" [] d = 6 -> "6" [] d = 7 -> "7" [] d = 8 -> "8" [] OTHER -> "9"

RECURSIVE NatText(_)
NatText(n) == IF n < 10 THEN <<DigitChar(n)>> ELSE NatText(n \div 10) \o <<DigitChar(n % 10)>>

\* The digits after the point as repr writes them: no trailing zeros, but at
\* least one digit.
FractionText(milli) ==
  IF milli % 100 = 0 THEN <<DigitChar(milli \div 100)>>
  ELSE IF milli % 10 = 0 THEN <<DigitChar(milli \div 100), DigitChar((milli \div 10) % 10)>>
  ELSE <<DigitChar(milli \div 100), DigitChar((milli \div 10) % 10), DigitChar(milli % 10)>>

\* The text of a cell: a NaN is the empty cell, text is written as it is.
CellText(v) ==
  CASE v.kind = "nan" -> <<>>
    [] v.kind = "string" -> <<v.text>>
    [] v.kind = "integer" -> (IF v.neg THEN <<"-">> ELSE <<>>) \o NatText(v.whole)
    [] OTHER -> (IF v.neg THEN <<"-">> ELSE <<>>) \o NatText(v.whole) \o <<".">> \o FractionText(v.milli)

\* DataFrame.to_csv(filepath, index=False, columns=columns): the header and,
\* per record, the cells of the selected columns.  A selected column that the
\* frame lacks is an empty column.
CsvRows(frame) == [i \in 1..Len(frame) |-> [c \in Range(columns) |-> IF c \in DOMAIN frame[i] THEN CellText(frame[i][c]) ELSE <<>>]]

InitExportCall == \E records \in MetricsLists : export = [stage |-> "args", seasonal_metrics |-> records, header |-> <<>>, rows |-> <<>>, raised |-> ""]

InitExport == IdleImport /\ IdleSingle /\ IdleIntegration /\ IdleDetector /\ InitExportCall /\ IdleResources

\* Every selected column is a column of the frame.
ExportCsv ==
  /\ export.stage = "args"
  /\ Range(columns) \subseteq FrameColumns(export.seasonal_metrics)
  /\ export' = [export EXCEPT !.stage = "written", !.header = columns, !.rows = CsvRows(DataFrame(export.seasonal_metrics))]
  /\ UNCHANGED <<resources, importVars, call, integration, detector>>

\* A selected column is not in the frame but another is, under a pandas that
\* reindexes such a selection (before 1.0).
ExportCsvReindexed ==
  /\ export.stage = "args"
  /\ ~(Range(columns) \subseteq FrameColumns(export.seasonal_metrics))
  /\ Range(columns) \cap FrameColumns(export.seasonal_metrics) # {}
  /\ export' = [export EXCEPT !.stage = "written", !.header = columns, !.rows = CsvRows(DataFrame(export.seasonal_metrics))]
  /\ UNCHANGED <<resources, importVars, call, integration, detector>>

\* A selected column is not in the frame: KeyError under a pandas that raises
\* for a selection with a missing label (1.0 and later), and under every
\* pandas when no selected column is in the frame (the frame of no records).
ExportCsvKeyError ==
  /\ export.stage = "args"
  /\ ~(Range(columns) \subseteq FrameColumns(export.seasonal_metrics))
  /\ export' = [export EXCEPT !.stage = "raised", !.raised = "KeyError"]
  /\ UNCHANGED <<resources, importVars, call, integration, detector>>

NextExport ==
  \/ ExportCsv
  \/ ExportCsvReindexed
  \/ ExportCsvKeyError

SpecExport == InitExport /\ [][NextExport]_vars

\* Reading a number back from a cell: the sign, the whole part and the first
\* three decimals.
PointAt(text) == IF \E i \in 1..Len(text) : text[i] = "." THEN CHOOSE i \in 1..Len(text) : text[i] = "." ELSE Len(text) + 1

ReadNumber(text) ==
  LET body == IF Len(text) >= 1 /\ text[1] = "-" THEN Tail(text) ELSE text
      point == PointAt(body)
      decimals == SubSeq(body, point + 1, Len(body)) \o <<"0", "0", "0">>
  IN  [neg |-> Len(text) >= 1 /\ text[1] = "-", whole |-> DecimalValue(SubSeq(body, 1, point - 1)), milli |-> DecimalValue(SubSeq(decimals, 1, 3))]

IsNumber(v) == v.kind \in {"integer", "float"}

SameToThreeDecimals(v, text) == text # <<>> /\ ReadNumber(text) = [neg |-> v.neg, whole |-> v.whole, milli |-> v.milli]

\* C10: every numeric field of every exported record appears in the written
\* row under its own name with the same value to three decimals.
C10_ExportLosesNoNumericField ==
  export.stage = "written" =>
    \A i \in 1..Len(export.seasonal_metrics) :
      \A f \in DOMAIN export.seasonal_metrics[i] :
        IsNumber(export.seasonal_metrics[i][f]) =>
          /\ f \in Range(export.header)
          /\ SameToThreeDecimals(export.seasonal_metrics[i][f], export.rows[i][f])

\* What the export does keep: every numeric field other than
\* intercept_deltaT is written under its own name with the same value to
\* three decimals.
C10_OnlyInterceptLost ==
  export.stage = "written" =>
    \A i \in 1..Len(export.seasonal_metrics) :
      \A f \in DOMAIN export.seasonal_metrics[i] :
        (IsNumber(export.seasonal_metrics[i][f]) /\ f # "intercept_deltaT") =>
          /\ f \in Range(export.header)
          /\ SameToThreeDecimals(export.seasonal_metrics[i][f], export.rows[i][f])

----------------------------------------------------------------------------
\* C11: normalize_utc_offset accepts every documented form of the offset:
\* "-0700" gives minus seven hours, "+7" the same offset as "+0700", "Z" a
\* zero offset, as do "0" and "+0"; any other value raises TypeError and no
\* other exception.  A call of get_single_thermostat that reaches the
\* normalisation raises for the offset exactly when the normalisation does.
DocumentedOffsets == {<<"-", "0", "7", "0", "0">>, <<"+", "7">>, <<"+", "0", "7", "0", "0">>, <<"Z">>, <<"0">>, <<"+", "0">>}

ZeroOffsets == {<<"Z">>, <<"0">>, <<"+", "0">>}

ReachedNormalize == Called /\ (call.out.exc = "" \/ (call.out.msg \in {"utc_offset", "weather"}))

C11_DocumentedOffsetsAccepted ==
  ReachedNormalize =>
    LET delta == normalize_utc_offset(call.utc_offset)
    IN  /\ call.utc_offset \in DocumentedOffsets =>
             /\ delta.ok
             /\ call.out.msg # "utc_offset"
             /\ call.utc_offset = <<"-", "0", "7", "0", "0">> => delta.minutes = -(7 * 60)
             /\ call.utc_offset = <<"+", "7">> => delta.minutes = normalize_utc_offset(<<"+", "0", "7", "0", "0">>).minutes
             /\ call.utc_offset \in ZeroOffsets => delta.minutes = 0
        /\ call.utc_offset \notin DocumentedOffsets =>
             /\ ~delta.ok
             /\ call.out.exc = "TypeError"
             /\ call.out.msg = "utc_offset"

\* What does hold: the claim for every offset other than "Z"; "Z" raises
\* TypeError like a value that is no offset.
C11_AllButZ ==
  ReachedNormalize =>
    LET delta == normalize_utc_offset(call.utc_offset)
    IN  /\ call.utc_offset \in DocumentedOffsets \ {<<"Z">>} =>
             /\ delta.ok
             /\ call.out.msg # "utc_offset"
             /\ call.utc_offset = <<"-", "0", "7", "0", "0">> => delta.minutes = -(7 * 60)
             /\ call.utc_offset \in {<<"+", "7">>, <<"+", "0", "7", "0", "0">>} => delta.minutes = 7 * 60
             /\ call.utc_offset \in ZeroOffsets => delta.minutes = 0
        /\ call.utc_offset \notin DocumentedOffsets \ {<<"Z">>} =>
             /\ ~delta.ok
             /\ call.out.exc = "TypeError"
             /\ call.out.msg = "utc_offset"

----------------------------------------------------------------------------
\* The resources the workers of from_csv use: the eeweather key-value store
\* (one entry per station and year), the cache directory and its
\* <thermostat_id>.json files.

Store(station) == [kind |-> "store", name |-> station]

Directory == [kind |-> "directory", name |-> "epathermostat_weather_data"]

File(thermostat_id) == [kind |-> "file", name |-> thermostat_id]

\* One use of a resource by the worker process that runs a metadata row.
Access(resource, w, i, op) == [resource |-> resource, worker |-> w, task |-> i, op |-> op]

\* How far multiprocess_func gets on a row: to the weather lookup of line
\* 322, and to save_json_cache of line 327.
ReachesWeather(row) ==
  LET out == get_single_thermostat(row.thermostat_id, row.zipcode, row.equipment_type, row.utc_offset, row.interval, FALSE)
  IN  /\ row.equipment_type \in {1, 2, 3, 4, 5}
      /\ row.interval.filename # NaN
      /\ (out.exc = "" \/ out.msg = "weather")

ReachesSaveCache(row, cache) == cache /\ multiprocess_func(row, cache).kind = "Thermostat"

InitResources == resources = [stage |-> "pool", phase |-> [w \in Workers |-> "weather"], store |-> {}, directory |-> FALSE, files |-> {}, log |-> {}]

\* The rows that tell the uses of the resources apart: a row that imports,
\* rows of another ZIP code (without a station, or with a station without
\* data) and rows that are skipped or fail before the weather lookup.
WorkerRows == {r \in MetadataRows : r.utc_offset = GoodRow(r.thermostat_id).utc_offset /\ r.equipment_type \in {0, 1} /\ r.interval.filename # NaN /\ ~Misaligned(r.interval.dates)}

InitWorkers == InitFromCsv(WorkerRows) /\ IdleSingle /\ IdleIntegration /\ IdleDetector /\ IdleExport /\ InitResources

\* get_indexed_temperatures_eeweather in a worker: the station's data are
\* read from the store when an entry is there, and fetched and written to
\* the store when not; a station without data leaves no entry.
WorkerWeather(w) ==
  /\ pc = "pool"
  /\ running[w] # 0
  /\ resources.phase[w] = "weather"
  /\ LET i == running[w]
         row == metadata[i]
         station == get_closest_station_by_zipcode(row.zipcode).station
         hit == Store(station) \in resources.store
         found == get_indexed_temperatures_eeweather(station, <<>>).ok
         next == IF ReachesSaveCache(row, save_cache) THEN "mkdir" ELSE "return"
     IN  IF ~ReachesWeather(row)
         THEN resources' = [resources EXCEPT !.phase[w] = "return"]
         ELSE resources' = [resources EXCEPT !.phase[w] = next,
                                             !.store = IF found THEN @ \cup {Store(station)} ELSE @,
                                             !.log = @ \cup {Access(Store(station), w, i, IF found /\ ~hit THEN "write" ELSE "read")}]
  /\ UNCHANGED <<importVars, call, integration, detector, export>>

\* save_json_cache, lines 64-68: os.mkdir creates the directory, or finds
\* it there (EEXIST) and goes on.
WorkerMkdir(w) ==
  /\ pc = "pool"
  /\ running[w] # 0
  /\ resources.phase[w] = "mkdir"
  /\ resources' = [resources EXCEPT !.phase[w] = "dump", !.directory = TRUE,
                                    !.log = @ \cup {Access(Directory, w, running[w], IF resources.directory THEN "exists" ELSE "create")}]
  /\ UNCHANGED <<importVars, call, integration, detector, export>>

\* save_json_cache, lines 70-87: the station's entries are read from the
\* store and written to <thermostat_id>.json in the directory.
WorkerDump(w) ==
  /\ pc = "pool"
  /\ running[w] # 0
  /\ resources.phase[w] = "dump"
  /\ LET i == running[w]
         row == metadata[i]
         station == get_closest_station_by_zipcode(row.zipcode).station
         name == save_json_cache(row.thermostat_id)
     IN  resources' = [resources EXCEPT !.phase[w] = "return", !.files = @ \cup {File(name)},
                                        !.log = @ \cup {Access(Store(station), w, i, "read"), Access(Directory, w, i, "write"), Access(File(name), w, i, "write")}]
  /\ UNCHANGED <<importVars, call, integration, detector, export>>

\* The worker hands the row's result to the pool.
WorkerReturn(w) ==
  /\ pc = "pool"
  /\ running[w] # 0
  /\ resources.phase[w] = "return"
  /\ LET i == running[w]
         r == multiprocess_func(metadata[i], save_cache)
     IN  /\ result_list' = [result_list EXCEPT ![i] = r]
         /\ warned' = IF r.warning = "" THEN warned ELSE warned \cup {<<i, r.warning>>}
  /\ running' = [running EXCEPT ![w] = 0]
  /\ resources' = [resources EXCEPT !.phase[w] = "weather"]
  /\ UNCHANGED <<metadata_file, shuffle, save_cache, metadata, pc, next_task, results, missing_thermostats, raised>>
  /\ UNCHANGED <<call, integration, detector, export>>

NextWorkers ==
  \/ ReadMetadata
  \/ \E w \in Workers : Dispatch(w)
  \/ \E w \in Workers : WorkerWeather(w)
  \/ \E w \in Workers : WorkerMkdir(w)
  \/ \E w \in Workers : WorkerDump(w)
  \/ \E w \in Workers : WorkerReturn(w)
  \/ Join
  \/ Collect

SpecWorkers == InitWorkers /\ [][NextWorkers]_vars

\* C12: worker processes importing different thermostats share no mutable
\* resource: no store entry, directory or file that one worker creates or
\* writes is created, read or written by another worker importing another
\* thermostat.
Shares(a, b) ==
  /\ a.resource = b.resource
  /\ a.op \in {"create", "write"}
  /\ a.worker # b.worker
  /\ metadata[a.task].thermostat_id # metadata[b.task].thermostat_id

C12_WorkersShareNothing == resources.stage = "pool" => \A a, b \in resources.log : ~Shares(a, b)

\* What does hold: the workers of different thermostats share only store
\* entries and the cache directory, never a <thermostat_id>.json file, and
\* the result of a row is that of multiprocess_func on the row alone.
C12_OnlyStoreAndDirectoryShared ==
  resources.stage = "pool" =>
    /\ \A a, b \in resources.log : Shares(a, b) => a.resource.kind \in {"store", "directory"}
    /\ \A i \in 1..Len(result_list) : result_list[i] \in {Pending, multiprocess_func(metadata[i], save_cache)}

----------------------------------------------------------------------------
\* C13: whatever order the workers finish in, the list from_csv returns
\* holds exactly the thermostats of the metadata rows whose import
\* succeeded, each once and in metadata row order (the file order without
\* shuffle, the shuffled order with it); skipped and failed rows contribute
\* nothing, and the ids reported as not loaded are the metadata ids minus the
\* ids of the returned thermostats.
SucceededRows == {i \in 1..Len(metadata) : Succeeds(metadata[i])}

\* The rows that tell the outcomes apart: per thermostat id a row that
\* imports, a row that is skipped (unsupported type) and a row that fails
\* (no weather station).
OrderRows == {r \in MetadataRows : r.utc_offset = GoodRow(r.thermostat_id).utc_offset /\ r.interval = GoodRow(r.thermostat_id).interval /\ r.zipcode \in {"62223", "zip?"} /\ r.equipment_type \in {0, 1}}

InitOrder == InitFromCsv(OrderRows) /\ IdleSingle /\ IdleIntegration /\ IdleDetector /\ IdleExport /\ IdleResources

SpecOrder == InitOrder /\ [][NextImport]_vars

C13_ReturnsSucceededInRowOrder ==
  pc = "done" =>
    /\ IF shuffle THEN metadata \in Orderings(metadata_file) ELSE metadata = metadata_file
    /\ Len(results) = Cardinality(SucceededRows)
    /\ \E f \in [1..Len(results) -> 1..Len(metadata)] :
         /\ \A k \in 1..Len(results) : f[k] \in SucceededRows /\ results[k] = OwnImport(metadata[f[k]]).thermostat
         /\ \A j, k \in 1..Len(results) : j < k => f[j] < f[k]
    /\ missing_thermostats = {metadata[i].thermostat_id : i \in 1..Len(metadata)} \ {results[k].thermostat_id : k \in 1..Len(results)}

\* A shuffled file of two thermostats that both import, returned in the
\* shuffled order, which is not the file order.
C13_Witness ==
  /\ pc = "done"
  /\ shuffle
  /\ metadata # metadata_file
  /\ Len(results) = MaxRows
  /\ results[1].thermostat_id = metadata[1].thermostat_id
  /\ results[1].thermostat_id # results[MaxRows].thermostat_id
  /\ missing_thermostats = {}

----------------------------------------------------------------------------
\* C14: for every sequence of records, also one whose records all lack the
\* fields of a mode, seasonal_metrics_to_csv completes and writes one row per
\* record, in input order, under the fixed column list in its order; a field
\* absent from a record is an empty cell, never a zero.
RowsFollowRecords ==
  /\ export.header = columns
  /\ Len(export.rows) = Len(export.seasonal_metrics)
  /\ \A i \in 1..Len(export.rows) :
       /\ DOMAIN export.rows[i] = Range(columns)
       /\ export.rows[i].ct_identifier = <<export.seasonal_metrics[i].ct_identifier.text>>
       /\ \A c \in Range(columns) :
            IF c \in DOMAIN export.seasonal_metrics[i]
            THEN export.rows[i][c] # <<>>
            ELSE export.rows[i][c] = <<>>

C14_ExportAlwaysCompletes == export.stage \in {"written", "raised"} => (export.stage = "written" /\ RowsFollowRecords)

\* What does hold: an export that completes has the claimed rows, and an
\* export raises KeyError only when some listed column is a field of none of
\* the records.
C14_CompletedExportFollowsRecords ==
  /\ export.stage = "written" => RowsFollowRecords
  /\ export.stage = "raised" => (export.raised = "KeyError" /\ \E c \in Range(columns) : \A i \in 1..Len(export.seasonal_metrics) : c \notin DOMAIN export.seasonal_metrics[i])

====
